---------------------------- MODULE Spec2Model ----------------------------
(***************************************************************************)
(* Benefit calculator (scoring.compute_expected_benefits), ranker          *)
(* (scoring.rank_products) and recommendation combiner                     *)
(* (ModelInterface.get_best_product) of the push-recommendation engine.    *)
(*                                                                         *)
(* Numbers.  The code computes in Python floats; the model computes the    *)
(* same expressions exactly, in fixed point: every money amount produced   *)
(* by the calculator and every confidence is an integer count of 1/Unit.   *)
(* Rates are given in whole percent, so rate * amount is                   *)
(* ratePct * amount * (Unit / 100).  Transaction, transfer and balance     *)
(* amounts are whole KZT.                                                  *)
(*                                                                         *)
(* Strings.  Product, category and transfer-type names are the source's    *)
(* names transliterated to ASCII:                                          *)
(*   "Karta dlya puteshestviy" travel card, "Premialnaya karta" premium    *)
(*   card, "Kreditnaya karta" credit card, "Obmen valyut" currency         *)
(*   exchange, "Kredit nalichnymi" cash loan, "Depozit Multivalyutnyy",    *)
(*   "Depozit Sberegatelnyy", "Depozit Nakopitelnyy" the three deposits,   *)
(*   "Investitsii" investments, "Zolotye slitki" gold.                     *)
(***************************************************************************)
EXTENDS Integers, Sequences, FiniteSets, TLC

VARIABLES
    client_row,          \* the client's profile row (pd.Series)
    tx,                  \* the transaction table handed to the engine
    tr,                  \* the transfer table handed to the engine
    cfg,                 \* the loaded configuration (rates, categories)
    ml_model_available,  \* ModelInterface.ml_model_available
    ml_model,            \* ModelInterface.ml_model (what the classifier does)
    method,              \* the prediction method requested
    pc,                  \* position of the run
    benefits,            \* BenefitMap of the last compute_expected_benefits
    facts,               \* FactMap of the last compute_expected_benefits
    ranked,              \* result of the last rank_products
    best_product,        \* generate.main's pick from the ranked list
    result,              \* outcome of the last get_best_product
    ollama_model,        \* name of the text generator, "none" without one
    calls,               \* the run_ollama invocations made so far
    draft,               \* push_text as it enters "validate and correct"
    push_out,            \* what the push step returned / wrote
    tasks,               \* the per-client computations running side by side
    frames               \* the function-call frames (locals) of those computations

pushVars == << ollama_model, calls, draft, push_out >>

taskVars == << tasks, frames >>

vars == << client_row, tx, tr, cfg, ml_model_available, ml_model, method, pc,
           benefits, facts, ranked, best_product, result, pushVars, taskVars >>

-----------------------------------------------------------------------------
(* Bounds of the explored inputs *)

MaxTx == 2
MaxTr == 1

(* Fixed point: 1/Unit is the resolution of benefits and confidences.      *)
(* 100 for percent rates, 4 for the deposits' / 12 * 3, 10 for the         *)
(* combiner's * 0.1 and * 0.8.                                             *)
Unit == 100 * 4 * 10

Pct(ratePct, amount) == ratePct * amount * (Unit \div 100)

Max(a, b) == IF a >= b THEN a ELSE b
Min(a, b) == IF a <= b THEN a ELSE b

RECURSIVE SeqSum(_)
SeqSum(s) == IF s = << >> THEN 0 ELSE s[1] + SeqSum(Tail(s))

RECURSIVE SetSum(_, _)
\* sum of f[x] over the finite set S
SetSum(f, S) ==
    IF S = {} THEN 0
    ELSE LET x == CHOOSE y \in S : TRUE IN f[x] + SetSum(f, S \ {x})

Range(s) == { s[i] : i \in DOMAIN s }

RECURSIVE SeqsUpTo(_, _)
\* all sequences over S of length 0..n
SeqsUpTo(S, n) ==
    IF n = 0 THEN { << >> }
    ELSE LET shorter == SeqsUpTo(S, n - 1)
         IN  shorter \cup { Append(s, x) : s \in shorter, x \in S }

-----------------------------------------------------------------------------
(* Python dict: insertion-ordered sequence of <<key, value>> pairs *)

DictKeys(d) == { d[i][1] : i \in DOMAIN d }

DictHas(d, k) == \E i \in DOMAIN d : d[i][1] = k

\* d.get(k, default)
DictGet(d, k, default) ==
    IF DictHas(d, k)
    THEN d[CHOOSE i \in DOMAIN d : d[i][1] = k][2]
    ELSE default

\* a dict assignment guarded by `if v:`, which stores no zero value
DictSetSkipZero(d, k, v) ==
    IF v = 0 THEN d
    ELSE IF DictHas(d, k)
    THEN [ i \in DOMAIN d |-> IF d[i][1] = k THEN << k, v >> ELSE d[i] ]
    ELSE Append(d, << k, v >>)

\* d[k] = v : overwrite in place, or append a new key at the end
DictSet(d, k, v) ==
    IF DictHas(d, k)
    THEN [ i \in DOMAIN d |-> IF d[i][1] = k THEN << k, v >> ELSE d[i] ]
    ELSE Append(d, << k, v >>)

\* sum(d.get(c, 0) for c in lst) : a repeated list entry is summed again
RECURSIVE SumGet(_, _)
SumGet(d, lst) ==
    IF lst = << >> THEN 0
    ELSE DictGet(d, lst[1], 0) + SumGet(d, Tail(lst))

-----------------------------------------------------------------------------
(* sorted(items, key=lambda x: x[1], reverse=True): stable, descending.    *)
(* Python keeps elements with equal keys in their original order also      *)
(* under reverse=True.                                                     *)

\* put e behind every element of the descending sequence s whose value >= e's
RECURSIVE InsertDesc(_, _)
InsertDesc(s, e) ==
    IF s = << >> THEN << e >>
    ELSE IF s[1][2] >= e[2] THEN << s[1] >> \o InsertDesc(Tail(s), e)
    ELSE << e >> \o s

RECURSIVE SortedDesc(_)
SortedDesc(items) ==
    IF items = << >> THEN << >>
    ELSE InsertDesc(SortedDesc(SubSeq(items, 1, Len(items) - 1)),
                    items[Len(items)])

-----------------------------------------------------------------------------
(* Names *)

TravelCard  == "Karta dlya puteshestviy"
PremiumCard == "Premialnaya karta"
CreditCard  == "Kreditnaya karta"
FxExchange  == "Obmen valyut"
CashLoan    == "Kredit nalichnymi"
DepMulti    == "Depozit Multivalyutnyy"
DepSave     == "Depozit Sberegatelnyy"
DepAccum    == "Depozit Nakopitelnyy"
Investments == "Investitsii"
Gold        == "Zolotye slitki"

\* the categories of the taxonomy that occur in the explored tables, in
\* ascending name order: the key order of groupby("category").sum()
CategoryOrder ==
    << "Igraem doma", "Kafe i restorany", "Produkty pitaniya", "Puteshestviya",
       "Smotrim doma", "Taksi" >>

\* premium balance tiers and the presence-signal benefit
TierMid       == 1000000
TierHigh      == 6000000
SignalBenefit == 1000

-----------------------------------------------------------------------------
(* Tables.  A table argument is None, a DataFrame without columns          *)
(* (pd.DataFrame()), or a DataFrame with its columns and 0..n rows.        *)

NoTable      == [ kind |-> "None",      rows |-> << >> ]
NoColumns    == [ kind |-> "NoColumns", rows |-> << >> ]
Table(rows)  == [ kind |-> "Table",     rows |-> rows ]

\* DataFrame.empty
IsEmpty(t) == t.rows = << >>

\* tx["amount"].clip(lower=0), per row
AmountKzt(row) == Max(row.amount, 0)

\* tx["amount_kzt"].sum()
RECURSIVE TotalSpend(_)
TotalSpend(rows) ==
    IF rows = << >> THEN 0
    ELSE AmountKzt(rows[1]) + TotalSpend(Tail(rows))

\* the group sum of the unclamped amounts, clamped once at the end
RECURSIVE RawGroupSum(_, _)
RawGroupSum(rows, c) ==
    IF rows = << >> THEN 0
    ELSE (IF rows[1].category = c THEN rows[1].amount ELSE 0)
         + RawGroupSum(Tail(rows), c)

GroupSumClipAfter(rows, c) == Max(RawGroupSum(rows, c), 0)

\* the group sum of one category
RECURSIVE GroupSum(_, _)
GroupSum(rows, c) ==
    IF rows = << >> THEN 0
    ELSE (IF rows[1].category = c THEN AmountKzt(rows[1]) ELSE 0)
         + GroupSum(Tail(rows), c)

\* the categories in the order of their first row: groupby(sort=False)
RECURSIVE FirstSeen(_)
FirstSeen(rows) ==
    IF rows = << >> THEN << >>
    ELSE LET rest == FirstSeen(SubSeq(rows, 1, Len(rows) - 1))
             c    == rows[Len(rows)].category
         IN  IF c \in Range(rest) THEN rest ELSE Append(rest, c)

CatSpendFirstSeen(rows) ==
    LET present == FirstSeen(rows)
    IN  [ i \in DOMAIN present |-> << present[i], GroupSum(rows, present[i]) >> ]

\* tx.groupby("category")["amount_kzt"].sum().to_dict(): one key per category
\* that occurs in the table, keys in ascending order
CatSpend(rows) ==
    LET present == SelectSeq(CategoryOrder,
                       LAMBDA c : \E i \in DOMAIN rows : rows[i].category = c)
    IN  [ i \in DOMAIN present |-> << present[i], GroupSum(rows, present[i]) >> ]

\* tr["type"].isin(types).sum()
TypeCount(rows, types) == Cardinality({ i \in DOMAIN rows : rows[i].type \in types })

\* tr.loc[tr["type"].isin(types), "amount"].sum()
RECURSIVE TypeVolume(_, _)
TypeVolume(rows, types) ==
    IF rows = << >> THEN 0
    ELSE (IF rows[1].type \in types THEN rows[1].amount ELSE 0)
         + TypeVolume(Tail(rows), types)

\* tr is not None and not tr.empty and tr["type"].isin(types).any()
HasSignal(t, types) ==
    /\ t.kind # "None"
    /\ ~IsEmpty(t)
    /\ \E i \in DOMAIN t.rows : t.rows[i].type \in types

-----------------------------------------------------------------------------
(* scoring.compute_expected_benefits, section by section *)

\* float(client_row.get("avg_monthly_balance_KZT", 0))
AvgBal(row) == IF row.has_avg_balance THEN row.avg_monthly_balance_KZT ELSE 0

\* travel card: travel_spend and rates["travel_cashback"] * travel_spend
TravelSpend(cat_spend, config) == SumGet(cat_spend, config.categories.travel)

\* the cashback taken on the spend of every category
TravelCashbackAllSpend(cat_spend, config) ==
    Pct(config.rates.travel_cashback,
        SeqSum([ i \in DOMAIN cat_spend |-> cat_spend[i][2] ]))

TravelCashback(cat_spend, config) ==
    Pct(config.rates.travel_cashback, TravelSpend(cat_spend, config))

\* the tiers with the boundaries on the wrong side: 1_000_000 < avg_bal <= 6_000_000
PremiumBaseStrict(avg_bal, config) ==
    IF TierMid < avg_bal /\ avg_bal <= TierHigh THEN config.rates.premium.base_mid
    ELSE IF avg_bal > TierHigh THEN config.rates.premium.base_high
    ELSE config.rates.premium.base_default

\* premium card: the base rate of the balance tier
PremiumBase(avg_bal, config) ==
    IF TierMid <= avg_bal /\ avg_bal < TierHigh THEN config.rates.premium.base_mid
    ELSE IF avg_bal >= TierHigh THEN config.rates.premium.base_high
    ELSE config.rates.premium.base_default

BoostedSpend(cat_spend, config) ==
    SumGet(cat_spend, config.categories.premium_boosted)

\* the premium cashback without the monthly cap
PremiumCbUncapped(avg_bal, total_spend, cat_spend, config) ==
    LET boosted_spend == BoostedSpend(cat_spend, config)
    IN  Pct(config.rates.premium.boosted_categories_rate, boosted_spend)
        + Pct(PremiumBase(avg_bal, config), Max(total_spend - boosted_spend, 0))

PremiumCb(avg_bal, total_spend, cat_spend, config) ==
    LET boosted_spend == BoostedSpend(cat_spend, config)
        boosted_cb    == Pct(config.rates.premium.boosted_categories_rate,
                             boosted_spend)
        other_spend   == Max(total_spend - boosted_spend, 0)
        other_cb      == Pct(PremiumBase(avg_bal, config), other_spend)
    IN  Min(boosted_cb + other_cb, config.rates.premium.cashback_cap_month * Unit)

\* items[:3] with equal spends taken in reverse key order
Top3TiesReversed(cat_spend) ==
    LET items == SortedDesc([ i \in DOMAIN cat_spend |->
                                cat_spend[Len(cat_spend) + 1 - i] ])
    IN  SubSeq(items, 1, Min(3, Len(items)))

\* credit card: items[:3] of the categories sorted by spend, descending
Top3(cat_spend) ==
    LET items == SortedDesc(cat_spend)
    IN  SubSeq(items, 1, Min(3, Len(items)))

\* the online extra summed over every online category, top 3 included
CcCbDoubleCount(cat_spend, config) ==
    LET top3       == Top3(cat_spend)
        top3_spend == SeqSum([ i \in DOMAIN top3 |-> top3[i][2] ])
        online     == Range(config.categories.online)
    IN  Pct(config.rates.credit_card.fav_rate,
            top3_spend + SetSum([ c \in online |-> DictGet(cat_spend, c, 0) ], online))

CcCb(cat_spend, config) ==
    LET top3         == Top3(cat_spend)
        top3_spend   == SeqSum([ i \in DOMAIN top3 |-> top3[i][2] ])
        top3_cats    == { top3[i][1] : i \in DOMAIN top3 }
        extra_cats   == Range(config.categories.online) \ top3_cats
        online_extra == SetSum([ c \in extra_cats |-> DictGet(cat_spend, c, 0) ],
                               extra_cats)
    IN  Pct(config.rates.credit_card.fav_rate, top3_spend + online_extra)

\* currency exchange
FxTypes    == { "fx_buy", "fx_sell" }
FxOpsTypes == { "fx_buy", "fx_sell", "deposit_fx_topup_out", "deposit_fx_withdraw_in" }

FxOps(t) == IF t.kind # "None" /\ ~IsEmpty(t) THEN TypeCount(t.rows, FxOpsTypes) ELSE 0

\* the volume taken over every counted operation type
FxVolAllOps(t) == IF t.kind # "None" /\ ~IsEmpty(t) THEN TypeVolume(t.rows, FxOpsTypes) ELSE 0

FxVol(t) == IF t.kind # "None" /\ ~IsEmpty(t) THEN TypeVolume(t.rows, FxTypes) ELSE 0

FxSaving(t, config) == Pct(config.rates.fx_saving_rate, FxVol(t))

\* deposits: rate * avg_bal / 12.0 * 3, the factor 3 / 12 taken out of Unit
\* first to stay inside TLC's integers
DepositBenefitOneMonth(ratePct, avg_bal) == ratePct * avg_bal * ((Unit \div 100) \div 12)

DepositBenefit(ratePct, avg_bal) == ratePct * avg_bal * (((Unit \div 100) * 3) \div 12)

\* investments / gold: presence signal
InvestSignalCount(t) ==
    IF HasSignal(t, { "invest_in", "invest_out" })
    THEN TypeCount(t.rows, { "invest_in", "invest_out" }) ELSE 0

InvestSignal(t) == IF HasSignal(t, { "invest_in", "invest_out" }) THEN 1 ELSE 0
GoldSignal(t)   == IF HasSignal(t, { "gold_buy_out", "gold_sell_in" }) THEN 1 ELSE 0

\* tx.copy() on None (AttributeError) and tx["amount"] on a table without
\* columns (KeyError) raise before anything is computed
ComputeRaises(txTable) == txTable.kind \in { "None", "NoColumns" }

\* the BenefitMap, keys inserted in the order of the assignments
\* lines 25-87, from the aggregates of lines 22-23
BenefitsFrom(row, total_spend, cat_spend, trTable, config) ==
    LET avg_bal     == AvgBal(row)
        b1  == DictSet(<< >>, TravelCard, TravelCashback(cat_spend, config))
        b2  == DictSet(b1, PremiumCard,
                       PremiumCb(avg_bal, total_spend, cat_spend, config))
        b3  == DictSet(b2, CreditCard, CcCb(cat_spend, config))
        b4  == DictSet(b3, FxExchange, FxSaving(trTable, config))
        b5  == DictSet(b4, CashLoan, 0)
        b6  == DictSet(b5, DepMulti,
                       DepositBenefit(config.rates.deposits.multi, avg_bal))
        b7  == DictSet(b6, DepSave,
                       DepositBenefit(config.rates.deposits.save, avg_bal))
        b8  == DictSet(b7, DepAccum,
                       DepositBenefit(config.rates.deposits.accum, avg_bal))
        b9  == DictSet(b8, Investments, SignalBenefit * InvestSignal(trTable) * Unit)
        b10 == DictSet(b9, Gold, SignalBenefit * GoldSignal(trTable) * Unit)
    IN  b10

BenefitsDict(row, txTable, trTable, config) ==
    BenefitsFrom(row, TotalSpend(txTable.rows), CatSpend(txTable.rows), trTable, config)

\* the FactMap: per product a dict of supporting numbers
FactsDict(row, txTable, trTable, config) ==
    LET total_spend == TotalSpend(txTable.rows)
        cat_spend   == CatSpend(txTable.rows)
        avg_bal     == AvgBal(row)
        top3        == Top3(cat_spend)
    IN  << << TravelCard,
              << << "travel_spend", TravelSpend(cat_spend, config) >> >> >>,
           << PremiumCard,
              << << "avg_balance", avg_bal >>,
                 << "boosted_spend", BoostedSpend(cat_spend, config) >>,
                 << "total_spend", total_spend >>,
                 << "rate", PremiumBase(avg_bal, config) >> >> >>,
           << CreditCard,
              << << "top3", [ i \in DOMAIN top3 |-> top3[i][1] ] >>,
                 << "top3_spend", SeqSum([ i \in DOMAIN top3 |-> top3[i][2] ]) >> >> >>,
           << FxExchange,
              << << "fx_volume_est", FxVol(trTable) >>,
                 << "fx_ops", FxOps(trTable) >> >> >>,
           << CashLoan, << >> >>,
           << DepMulti, << << "avg_balance", avg_bal >> >> >>,
           << DepSave, << << "avg_balance", avg_bal >> >> >>,
           << DepAccum, << << "avg_balance", avg_bal >> >> >>,
           << Investments, << << "signal", InvestSignal(trTable) >> >> >>,
           << Gold, << << "signal", GoldSignal(trTable) >> >> >> >>

\* the rate keys of config.yaml that the rules read
RateKeys ==
    { "travel_cashback", "premium.base_default", "premium.base_mid",
      "premium.base_high", "premium.boosted_categories_rate",
      "premium.cashback_cap_month", "credit_card.fav_rate", "fx_saving_rate",
      "deposits.multi", "deposits.save", "deposits.accum" }

\* the rate keys one call subscripts: base_mid and base_high only inside the
\* branch of their balance tier, every other key unconditionally
RateKeysRead(avg_bal) ==
    (RateKeys \ { "premium.base_mid", "premium.base_high" })
    \cup (IF TierMid <= avg_bal /\ avg_bal < TierHigh
          THEN { "premium.base_mid" }
          ELSE IF avg_bal >= TierHigh THEN { "premium.base_high" } ELSE { })

\* a subscripted key that the configuration lacks raises KeyError
RateKeyError(row, config) == RateKeysRead(AvgBal(row)) \cap config.missing # { }

\* the call's outcome: an exception, or (benefits, facts)
compute_expected_benefits(row, txTable, trTable, config) ==
    IF ComputeRaises(txTable) \/ RateKeyError(row, config)
    THEN [ raised |-> TRUE, benefits |-> << >>, facts |-> << >> ]
    ELSE [ raised   |-> FALSE,
           benefits |-> BenefitsDict(row, txTable, trTable, config),
           facts    |-> FactsDict(row, txTable, trTable, config) ]

Reverse(s) == [ i \in DOMAIN s |-> s[Len(s) + 1 - i] ]

\* sorted(...) without reverse=True
RankAscending(b) == Reverse(SortedDesc(b))

\* sorted(...)[::-1] in place of reverse=True: descending, ties reversed
RankTiesReversed(b) == SortedDesc(Reverse(b))

\* scoring.rank_products
rank_products(b) == SortedDesc(b)

-----------------------------------------------------------------------------
(* ModelInterface: the classifier and the combiner *)

\* ModelInterface.product_classes: the default class list of __init__
ProductClasses ==
    << DepMulti, DepAccum, DepSave, Gold, Investments,
       TravelCard, CashLoan, CreditCard, FxExchange, PremiumCard >>

\* ml_model after a failed _load_ml_model
NoModel ==
    [ api |-> "none", raises |-> FALSE, classes |-> << >>, top |-> "", score |-> 0 ]

\* the scores the model gives for one client: `top` gets `score`; every other
\* class gets 0 from predict_proba and score - 1.0 from decision_function
ModelScores(m) ==
    [ i \in DOMAIN m.classes |->
        << m.classes[i],
           IF m.classes[i] = m.top THEN m.score
           ELSE IF m.api = "decision_function" THEN m.score - Unit
           ELSE 0 >> ]

\* ModelInterface.predict_product_ml: [] when the model is not loaded or
\* anything in the try block raises
predict_product_ml(available, m) ==
    IF ~available THEN << >>
    ELSE IF m.raises THEN << >>
    ELSE IF m.api \in { "predict_proba", "decision_function" }
         THEN SortedDesc(ModelScores(m))
    ELSE << << m.top, Unit >> >>

\* ModelInterface.predict_product_rules: the ranked BenefitMap, or the
\* exception of compute_expected_benefits
predict_product_rules(row, txTable, trTable, config) ==
    LET out == compute_expected_benefits(row, txTable, trTable, config)
    IN  IF out.raised THEN [ raised |-> TRUE, ranked |-> << >> ]
        ELSE [ raised |-> FALSE, ranked |-> rank_products(out.benefits) ]

Return(pair) == [ raised |-> FALSE, product |-> pair[1], confidence |-> pair[2] ]
Raise        == [ raised |-> TRUE, product |-> "", confidence |-> 0 ]

\* the final return of get_best_product: ("Investitsii", 0.1)
Fallback == << Investments, Unit \div 10 >>

\* agreement without the cap: ml_top[1] + rule_top[1] * 0.1
AgreeConfidenceUncapped(ml_conf, rule_value) == ml_conf + rule_value \div 10

\* the rule value taken off instead of added
AgreeConfidenceSubtract(ml_conf, rule_value) == Min(ml_conf - rule_value \div 10, Unit)

\* min(ml_top[1] + rule_top[1] * 0.1, 1.0)
AgreeConfidence(ml_conf, rule_value) == Min(ml_conf + rule_value \div 10, Unit)

\* disagreement without the discount
DisagreeConfidenceFull(ml_conf) == ml_conf

\* ml_top[1] * 0.8
DisagreeConfidence(ml_conf) == (ml_conf * 8) \div 10

\* the `if method == "hybrid":` block and what follows it
HybridBlock(meth, ml, rules) ==
    IF meth = "hybrid"
    THEN IF rules.raised THEN Raise
         ELSE IF ml # << >> /\ rules.ranked # << >>
              THEN LET ml_top   == ml[1]
                       rule_top == rules.ranked[1]
                   IN  IF ml_top[1] = rule_top[1]
                       THEN Return(<< ml_top[1],
                                      AgreeConfidence(ml_top[2], rule_top[2]) >>)
                       ELSE Return(<< ml_top[1], DisagreeConfidence(ml_top[2]) >>)
         ELSE IF rules.ranked # << >> THEN Return(rules.ranked[1])
         ELSE Return(Fallback)
    ELSE Return(Fallback)

\* the `if method == "rules" or not self.ml_model_available:` block and on
RulesBlock(meth, available, ml, rules) ==
    IF meth = "rules" \/ ~available
    THEN IF rules.raised THEN Raise
         ELSE IF rules.ranked # << >> THEN Return(rules.ranked[1])
         ELSE HybridBlock(meth, ml, rules)
    ELSE HybridBlock(meth, ml, rules)

\* get_best_product without the classifier-only return of its first block
GetBestProductNoMlReturn(row, txTable, trTable, config, available, m, meth) ==
    RulesBlock(IF meth = "ml" THEN "hybrid" ELSE meth, available,
               predict_product_ml(available, m),
               predict_product_rules(row, txTable, trTable, config))

\* ModelInterface.get_best_product
get_best_product(row, txTable, trTable, config, available, m, meth) ==
    LET ml    == predict_product_ml(available, m)
        rules == predict_product_rules(row, txTable, trTable, config)
    IN  IF meth = "ml" /\ available /\ ml # << >>
        THEN Return(ml[1])
        ELSE RulesBlock(meth, available, ml, rules)

-----------------------------------------------------------------------------
(* The explored inputs *)

\* config.yaml as loaded: rates in percent, the cap in KZT; `missing` names
\* the rate keys the file lacks (their values are then never read)
CfgTypical ==
    [ missing |-> { },
      rates |->
        [ travel_cashback |-> 4,
          premium |-> [ base_default |-> 2, base_mid |-> 3, base_high |-> 4,
                        boosted_categories_rate |-> 4,
                        cashback_cap_month |-> 100000 ],
          credit_card |-> [ fav_rate |-> 10 ],
          fx_saving_rate |-> 1,
          deposits |-> [ multi |-> 14, save |-> 16, accum |-> 15 ] ],
      categories |->
        [ travel |-> << "Puteshestviya", "Taksi", "Oteli" >>,
          premium_boosted |-> << "Kafe i restorany", "Yuvelirnye ukrasheniya" >>,
          online |-> << "Smotrim doma", "Igraem doma", "Edim doma" >> ] ]

\* a configuration with a low cap, zero travel and credit-card rates and
\* three equal deposit rates
CfgLowCap ==
    [ missing |-> { },
      rates |->
        [ travel_cashback |-> 0,
          premium |-> [ base_default |-> 1, base_mid |-> 2, base_high |-> 3,
                        boosted_categories_rate |-> 5,
                        cashback_cap_month |-> 50 ],
          credit_card |-> [ fav_rate |-> 0 ],
          fx_saving_rate |-> 2,
          deposits |-> [ multi |-> 10, save |-> 10, accum |-> 10 ] ],
      categories |->
        [ travel |-> << "Puteshestviya", "Taksi", "Oteli" >>,
          premium_boosted |-> << "Kafe i restorany", "Yuvelirnye ukrasheniya" >>,
          online |-> << "Smotrim doma", "Igraem doma", "Edim doma" >> ] ]

Configs == { CfgTypical, CfgLowCap }

\* a configuration whose boosted and online lists name a category twice
CfgRepeats ==
    [ CfgTypical EXCEPT
        !.categories.premium_boosted = << "Kafe i restorany", "Kafe i restorany" >>,
        !.categories.online = << "Smotrim doma", "Igraem doma", "Smotrim doma" >> ]

\* profiles: without the balance field, and one balance per premium tier
Clients ==
    { [ has_avg_balance |-> FALSE, avg_monthly_balance_KZT |-> 0 ] }
    \cup { [ has_avg_balance |-> TRUE, avg_monthly_balance_KZT |-> b ] :
             b \in { 500000, TierMid, TierHigh } }

TxRows ==
    { [ category |-> "Taksi",             amount |-> 10 ],
      [ category |-> "Taksi",             amount |-> -100 ],
      [ category |-> "Kafe i restorany",  amount |-> 2000 ],
      [ category |-> "Smotrim doma",      amount |-> 9 ],
      [ category |-> "Produkty pitaniya", amount |-> 2000 ],
      [ category |-> "Produkty pitaniya", amount |-> 10 ] }

TrRows ==
    { [ type |-> "fx_buy",               amount |-> 50 ],
      [ type |-> "fx_sell",              amount |-> -50 ],
      [ type |-> "deposit_fx_topup_out", amount |-> 50 ],
      [ type |-> "invest_in",            amount |-> 50 ],
      [ type |-> "gold_buy_out",         amount |-> 50 ],
      [ type |-> "card_out",             amount |-> 50 ] }

TxTables == { NoTable, NoColumns } \cup { Table(r) : r \in SeqsUpTo(TxRows, MaxTx) }
TrTables == { NoTable, NoColumns } \cup { Table(r) : r \in SeqsUpTo(TrRows, MaxTr) }

\* the classifiers a loaded model.pkl may be: three prediction APIs, scores
\* inside and outside [0, 1], a label outside the catalog, a model that
\* raises, and a metadata file with an empty class list
MLModels ==
    { [ api |-> "predict_proba", raises |-> FALSE, classes |-> ProductClasses,
        top |-> p, score |-> (c * Unit) \div 100 ] :
          p \in { CreditCard, TravelCard, Investments }, c \in { 70, 85, 100 } }
    \cup { [ api |-> "decision_function", raises |-> FALSE,
             classes |-> ProductClasses, top |-> CreditCard,
             score |-> (c * Unit) \div 100 ] : c \in { -50, 250 } }
    \cup { [ api |-> "predict", raises |-> FALSE, classes |-> ProductClasses,
             top |-> p, score |-> 0 ] : p \in { CreditCard, "Ipoteka" } }
    \cup { [ api |-> "predict_proba", raises |-> TRUE, classes |-> ProductClasses,
             top |-> CreditCard, score |-> Unit ],
           [ api |-> "predict_proba", raises |-> FALSE, classes |-> << >>,
             top |-> CreditCard, score |-> Unit ] }

Methods == { "ml", "rules", "hybrid", "auto" }

NoResult == [ raised |-> FALSE, product |-> "", confidence |-> 0 ]

-----------------------------------------------------------------------------
(* Push texts.  A text is described by what validate_push and autocorrect   *)
(* read: its length, its capital runs, a form of address, its runs of '!',  *)
(* where its call to action stands, and the " ,.;" run that ends at the cut *)

EmptyText ==
    [ len |-> 0, caps |-> "none", vy |-> FALSE, bangs |-> << >>,
      cta |-> "none", tail_punct |-> 0 ]

NoOutput ==
    [ returned |-> FALSE, product |-> "", push_notification |-> EmptyText,
      validation |-> [ ok |-> FALSE, issues |-> { } ],
      expected_benefit |-> 0, facts |-> << >> ]

\* no push step and no side-by-side computation in this run
PushIdle ==
    /\ ollama_model = "none"
    /\ calls = << >>
    /\ draft = EmptyText
    /\ push_out = NoOutput

TasksIdle ==
    /\ tasks = << >>
    /\ frames = << >>

-----------------------------------------------------------------------------
(* The batch run of generate.main for one client: compute, rank, pick *)

Init ==
    /\ client_row \in Clients
    /\ tx \in TxTables
    /\ tr \in TrTables
    /\ cfg \in Configs
    /\ ml_model_available = FALSE
    /\ ml_model = NoModel
    /\ method = "rules"
    /\ pc = "start"
    /\ benefits = << >>
    /\ facts = << >>
    /\ ranked = << >>
    /\ best_product = ""
    /\ result = NoResult
    /\ PushIdle
    /\ TasksIdle

\* a table object after tx["amount_kzt"] = tx["amount"].clip(lower=0)
WithAmountKzt(t) ==
    [ t EXCEPT !.rows = [ i \in DOMAIN t.rows |->
                            [ category   |-> t.rows[i].category,
                              amount     |-> t.rows[i].amount,
                              amount_kzt |-> AmountKzt(t.rows[i]) ] ] ]

\* the caller's table when the column is assigned without tx = tx.copy()
CallerTxNoCopy(t) == IF ComputeRaises(t) THEN t ELSE WithAmountKzt(t)

\* the caller's table after the call: tx = tx.copy() rebinds the local name
\* first, so the new column lands on the copy
CallerTx(t) == t

CallComputeExpectedBenefits ==
    /\ pc = "start"
    /\ LET out == compute_expected_benefits(client_row, tx, tr, cfg)
       IN  /\ benefits' = out.benefits
           /\ facts' = out.facts
           /\ pc' = IF out.raised THEN "raised" ELSE "computed"
    /\ tx' = CallerTx(tx)
    /\ UNCHANGED << client_row, tr, cfg, ml_model_available, ml_model,
                    method, ranked, best_product, result >>
    /\ UNCHANGED << pushVars, taskVars >>

CallRankProducts ==
    /\ pc = "computed"
    /\ ranked' = rank_products(benefits)
    /\ pc' = "ranked"
    /\ UNCHANGED << client_row, tx, tr, cfg, ml_model_available, ml_model,
                    method, benefits, facts, best_product, result >>
    /\ UNCHANGED << pushVars, taskVars >>

\* generate.main: best_product = ranked[0][0] if ranked else "Investitsii"
PickBestProduct ==
    /\ pc = "ranked"
    /\ best_product' = IF ranked # << >> THEN ranked[1][1] ELSE Investments
    /\ pc' = "picked"
    /\ UNCHANGED << client_row, tx, tr, cfg, ml_model_available, ml_model,
                    method, benefits, facts, ranked, result >>
    /\ UNCHANGED << pushVars, taskVars >>

Next == CallComputeExpectedBenefits \/ CallRankProducts \/ PickBestProduct

Spec == Init /\ [][Next]_vars

-----------------------------------------------------------------------------
(* One get_best_product call on a constructed ModelInterface *)

CombinerTx == { NoTable, NoColumns } \cup { Table(r) : r \in SeqsUpTo(TxRows, 1) }

CombinerTr ==
    { NoTable,
      Table(<< [ type |-> "invest_in", amount |-> 50 ] >>),
      Table(<< [ type |-> "fx_buy", amount |-> 50 ] >>) }

CombinerClients ==
    { c \in Clients : c.avg_monthly_balance_KZT \in { 0, TierMid } }

InitCombiner ==
    /\ client_row \in CombinerClients
    /\ tx \in CombinerTx
    /\ tr \in CombinerTr
    /\ cfg \in Configs
    /\ \/ ml_model_available = FALSE /\ ml_model = NoModel
       \/ ml_model_available = TRUE /\ ml_model \in MLModels
    /\ method \in Methods
    /\ pc = "start"
    /\ benefits = << >>
    /\ facts = << >>
    /\ ranked = << >>
    /\ best_product = ""
    /\ result = NoResult
    /\ PushIdle
    /\ TasksIdle

CallGetBestProduct ==
    /\ pc = "start"
    /\ result' = get_best_product(client_row, tx, tr, cfg,
                                  ml_model_available, ml_model, method)
    /\ pc' = IF result'.raised THEN "raised" ELSE "done"
    /\ UNCHANGED << client_row, tx, tr, cfg, ml_model_available, ml_model,
                    method, benefits, facts, ranked, best_product >>
    /\ UNCHANGED << pushVars, taskVars >>

NextCombiner == CallGetBestProduct

SpecCombiner == InitCombiner /\ [][NextCombiner]_vars

-----------------------------------------------------------------------------
(* Properties of the calculator and the ranker, under Spec *)

\* the fixed catalog of the ten product classes, in declaration order
Catalog ==
    << TravelCard, PremiumCard, CreditCard, FxExchange, CashLoan,
       DepMulti, DepSave, DepAccum, Investments, Gold >>

CatalogIndex(p) == CHOOSE i \in DOMAIN Catalog : Catalog[i] = p

\* compute_expected_benefits has returned a BenefitMap
Computed == pc \in { "computed", "ranked", "picked" }

\* rank_products has returned
Ranked == pc \in { "ranked", "picked" }

AllZero(b) == \A i \in DOMAIN b : b[i][2] = 0

\* C1: whenever compute_expected_benefits returns, the keys of the BenefitMap
\* are exactly the ten catalog names, each once, zero-valued entries included.
C1_BenefitMapKeys ==
    Computed =>
        /\ DictKeys(benefits) = Range(Catalog)
        /\ Len(benefits) = Len(Catalog)

\* a returned BenefitMap holding a zero entry beside a positive one
C1_Witness ==
    /\ pc = "computed"
    /\ DictGet(benefits, TravelCard, -1) = 0
    /\ DictGet(benefits, Investments, -1) = 0
    /\ DictGet(benefits, CreditCard, -1) > 0

\* C2: every value of a returned BenefitMap is >= 0, for a non-negative
\* balance, non-negative rates and cap, and transfers of any sign.
C2_BenefitsNonNegative ==
    (Computed /\ AvgBal(client_row) >= 0) =>
        \A i \in DOMAIN benefits : benefits[i][2] >= 0

\* C3: rank_products(b) is a permutation of b's entries, each product once,
\* with benefits in non-increasing order.
C3_RankIsSortedPermutation ==
    Ranked =>
        /\ Len(ranked) = Len(benefits)
        /\ \A i \in DOMAIN benefits :
               Cardinality({ j \in DOMAIN ranked : ranked[j] = benefits[i] }) = 1
        /\ \A k \in DOMAIN ranked :
               Cardinality({ j \in DOMAIN ranked : ranked[j][1] = ranked[k][1] }) = 1
        /\ \A j \in 1 .. (Len(ranked) - 1) : ranked[j][2] >= ranked[j + 1][2]

\* a ranking that moved entries: the last-declared product ranked first
C3_Witness ==
    /\ pc = "ranked"
    /\ ranked # benefits
    /\ ranked[1][1] = Gold
    /\ ranked[1][2] > ranked[Len(ranked)][2]

\* C4: products of equal benefit are ranked in catalog declaration order, and
\* an all-zero BenefitMap ranks the travel card first.
C4_TiesInCatalogOrder ==
    Ranked =>
        /\ \A i, j \in DOMAIN ranked :
               (i < j /\ ranked[i][2] = ranked[j][2])
                   => CatalogIndex(ranked[i][1]) < CatalogIndex(ranked[j][1])
        /\ AllZero(benefits) => ranked[1][1] = TravelCard

\* the ranking of an all-zero BenefitMap
C4_Witness ==
    /\ pc = "ranked"
    /\ AllZero(benefits)
    /\ Len(ranked) = Len(Catalog)

-----------------------------------------------------------------------------
(* Properties of the combiner, under SpecCombiner *)

\* the classifier's prediction list and the rule ranking for the current client
MlPredictions == predict_product_ml(ml_model_available, ml_model)

RulePredictions == predict_product_rules(client_row, tx, tr, cfg)

RulesAvailable == ~RulePredictions.raised /\ RulePredictions.ranked # << >>

\* get_best_product has ended, by a return or by an exception
Called == pc \in { "done", "raised" }

Returned(pair) ==
    /\ ~result.raised
    /\ result.product = pair[1]
    /\ result.confidence = pair[2]

\* C5: hybrid mode, both lists present, equal top products: that product with
\* confidence min(classifier confidence + 0.1 * rule value, 1.0).
C5_AgreeBoost ==
    ( /\ Called
      /\ method = "hybrid"
      /\ MlPredictions # << >>
      /\ RulesAvailable
      /\ MlPredictions[1][1] = RulePredictions.ranked[1][1] )
    => Returned(<< MlPredictions[1][1],
                   Min(MlPredictions[1][2] + RulePredictions.ranked[1][2] \div 10,
                       Unit) >>)

\* rule value 0.9 and classifier confidence 0.85 combined to 0.94
C5_Witness ==
    /\ pc = "done"
    /\ method = "hybrid"
    /\ MlPredictions # << >>
    /\ RulesAvailable
    /\ MlPredictions[1] = << CreditCard, (85 * Unit) \div 100 >>
    /\ RulePredictions.ranked[1] = << CreditCard, (90 * Unit) \div 100 >>
    /\ result.confidence = (94 * Unit) \div 100

\* C6: hybrid mode, both lists present, different top products: the
\* classifier's top product with confidence 0.8 * classifier confidence.
C6_DisagreeDiscount ==
    ( /\ Called
      /\ method = "hybrid"
      /\ MlPredictions # << >>
      /\ RulesAvailable
      /\ MlPredictions[1][1] # RulePredictions.ranked[1][1] )
    => Returned(<< MlPredictions[1][1], (MlPredictions[1][2] * 8) \div 10 >>)

\* classifier confidence 0.7 against a different rule pick gives 0.56
C6_Witness ==
    /\ pc = "done"
    /\ method = "hybrid"
    /\ MlPredictions # << >>
    /\ RulesAvailable
    /\ MlPredictions[1][2] = (70 * Unit) \div 100
    /\ MlPredictions[1][1] # RulePredictions.ranked[1][1]
    /\ result.product = MlPredictions[1][1]
    /\ result.confidence = (56 * Unit) \div 100

\* C7: with no classifier prediction and an available rule ranking,
\* get_best_product returns the rule ranking's first entry unchanged, for each
\* of the methods "ml", "rules" and "hybrid", and does not raise.
C7_RuleOnlyReturnsRuleTop ==
    ( /\ Called
      /\ method \in { "ml", "rules", "hybrid" }
      /\ MlPredictions = << >>
      /\ RulesAvailable )
    => Returned(RulePredictions.ranked[1])

\* C8: method "ml" with a non-empty classifier prediction returns the
\* classifier's top entry unchanged, whatever the rule ranking is.
C8_MlOnlyUnchanged ==
    ( /\ Called
      /\ method = "ml"
      /\ MlPredictions # << >> )
    => Returned(MlPredictions[1])

\* method "ml" answered from the classifier, confidence below 1.0 untouched,
\* while the rule ranking has the same top product with a positive value
C8_Witness ==
    /\ pc = "done"
    /\ method = "ml"
    /\ MlPredictions # << >>
    /\ RulesAvailable
    /\ RulePredictions.ranked[1][1] = MlPredictions[1][1]
    /\ RulePredictions.ranked[1][2] > 0
    /\ MlPredictions[1][2] < Unit
    /\ Returned(MlPredictions[1])

\* C9: get_best_product always returns a pair, and returns exactly
\* ("Investitsii", 0.1) when neither a classifier prediction nor a rule
\* ranking is available.
C9_AlwaysReturnsPair ==
    Called =>
        /\ ~result.raised
        /\ (MlPredictions = << >> /\ ~RulesAvailable) => Returned(Fallback)

\* C10: the fallback ("Investitsii", 0.1) is returned only when neither a
\* classifier prediction nor a rule ranking is available.
C10_FallbackOnlyWhenNeither ==
    (Called /\ Returned(Fallback)) =>
        (MlPredictions = << >> /\ ~RulesAvailable)

-----------------------------------------------------------------------------
(* Properties of the calculator's rules *)

Benefit(p) == DictGet(benefits, p, -1)

Fact(p, k) == DictGet(DictGet(facts, p, << >>), k, -1)

\* rate * balance / 12 * 3 in 1/Unit, for a rate in percent
QuarterInterest(ratePct, bal) == ratePct * bal * (Unit \div 400)

\* C11: with the transaction table and the transfer table each absent, without
\* columns or without rows, compute_expected_benefits does not raise and
\* returns the ten entries: travel, premium, credit card, currency exchange,
\* investments and gold 0, each deposit rate * balance / 12 * 3 (balance 0
\* when the profile has no balance field).
C11_MissingDataNeverRaises ==
    (pc # "start" /\ IsEmpty(tx) /\ IsEmpty(tr)) =>
        /\ Computed
        /\ DictKeys(benefits) = Range(Catalog)
        /\ \A p \in { TravelCard, PremiumCard, CreditCard, FxExchange,
                      Investments, Gold } : Benefit(p) = 0
        /\ Benefit(DepMulti) =
               QuarterInterest(cfg.rates.deposits.multi, AvgBal(client_row))
        /\ Benefit(DepSave) =
               QuarterInterest(cfg.rates.deposits.save, AvgBal(client_row))
        /\ Benefit(DepAccum) =
               QuarterInterest(cfg.rates.deposits.accum, AvgBal(client_row))

-----------------------------------------------------------------------------
(* The batch run under a configuration that may lack one rate key *)

ConfigsLackingOneKey == { [ CfgTypical EXCEPT !.missing = { k } ] : k \in RateKeys }

InitConfig ==
    /\ client_row \in Clients
    /\ tx \in CombinerTx
    /\ tr \in CombinerTr
    /\ cfg \in { CfgTypical } \cup ConfigsLackingOneKey
    /\ ml_model_available = FALSE
    /\ ml_model = NoModel
    /\ method = "rules"
    /\ pc = "start"
    /\ benefits = << >>
    /\ facts = << >>
    /\ ranked = << >>
    /\ best_product = ""
    /\ result = NoResult
    /\ PushIdle
    /\ TasksIdle

SpecConfig == InitConfig /\ [][Next]_vars

\* C12: a configuration lacking any one required rate key makes
\* compute_expected_benefits fail, whatever the client's balance tier.
C12_MissingRateKeyFails ==
    (pc # "start" /\ cfg.missing # { }) => pc = "raised"

-----------------------------------------------------------------------------
(* The batch run over the balance tiers and larger spends *)

\* a profile without the balance field, and balances on both sides of each
\* tier boundary
TierClients ==
    { [ has_avg_balance |-> FALSE, avg_monthly_balance_KZT |-> 0 ] }
    \cup { [ has_avg_balance |-> TRUE, avg_monthly_balance_KZT |-> b ] :
             b \in { 500000, TierMid - 1, TierMid, TierHigh - 1, TierHigh } }

SpendRows ==
    { [ category |-> "Taksi",             amount |-> 100000 ],
      [ category |-> "Puteshestviya",     amount |-> 200000 ],
      [ category |-> "Taksi",             amount |-> -100 ],
      [ category |-> "Kafe i restorany",  amount |-> 2000 ],
      [ category |-> "Produkty pitaniya", amount |-> 2000 ],
      [ category |-> "Smotrim doma",      amount |-> 9 ] }

InitSpend ==
    /\ client_row \in TierClients
    /\ tx \in { Table(r) : r \in SeqsUpTo(SpendRows, MaxTx) }
    /\ tr \in { NoTable, Table(<< [ type |-> "fx_buy", amount |-> 50 ] >>) }
    /\ cfg \in { CfgTypical, CfgLowCap, CfgRepeats }
    /\ ml_model_available = FALSE
    /\ ml_model = NoModel
    /\ method = "rules"
    /\ pc = "start"
    /\ benefits = << >>
    /\ facts = << >>
    /\ ranked = << >>
    /\ best_product = ""
    /\ result = NoResult
    /\ PushIdle
    /\ TasksIdle

SpecSpend == InitSpend /\ [][Next]_vars

\* the clamped spend of the rows whose category is in cats
RECURSIVE SpendIn(_, _)
SpendIn(rows, cats) ==
    IF rows = << >> THEN 0
    ELSE (IF rows[1].category \in cats /\ rows[1].amount > 0
          THEN rows[1].amount ELSE 0)
         + SpendIn(Tail(rows), cats)

AllCategories == { tx.rows[i].category : i \in DOMAIN tx.rows }

\* the spend of the categories of a configured list, entry by entry
RECURSIVE ListSpend(_, _)
ListSpend(rows, lst) ==
    IF lst = << >> THEN 0
    ELSE SpendIn(rows, { lst[1] }) + ListSpend(rows, Tail(lst))

\* C13: the premium-card benefit never exceeds rates.premium.cashback_cap_month.
C13_PremiumWithinCap ==
    Computed => Benefit(PremiumCard) <= cfg.rates.premium.cashback_cap_month * Unit

\* the cap binds: the boosted cashback alone is above it
C13_Witness ==
    /\ pc = "computed"
    /\ Benefit(PremiumCard) = cfg.rates.premium.cashback_cap_month * Unit
    /\ cfg.rates.premium.boosted_categories_rate
         * ListSpend(tx.rows, cfg.categories.premium_boosted) * (Unit \div 100)
       > cfg.rates.premium.cashback_cap_month * Unit

\* C15: premium benefit = min(boosted_rate * boosted_spend
\* + base * max(total_spend - boosted_spend, 0), cap), base being base_default
\* below 1,000,000, base_mid in [1,000,000, 6,000,000) and base_high from
\* 6,000,000 on; boosted_spend is the spend summed over the configured list.
C15_PremiumFormula ==
    Computed =>
        LET bal     == AvgBal(client_row)
            total   == SpendIn(tx.rows, AllCategories)
            boosted == ListSpend(tx.rows, cfg.categories.premium_boosted)
            base    == IF bal < TierMid THEN cfg.rates.premium.base_default
                       ELSE IF bal < TierHigh THEN cfg.rates.premium.base_mid
                       ELSE cfg.rates.premium.base_high
            other   == IF total - boosted > 0 THEN total - boosted ELSE 0
            uncapped ==
                (cfg.rates.premium.boosted_categories_rate * boosted
                 + base * other) * (Unit \div 100)
            cap     == cfg.rates.premium.cashback_cap_month * Unit
        IN  Benefit(PremiumCard) = IF uncapped <= cap THEN uncapped ELSE cap

\* a balance of exactly 1,000,000 paid at the mid rate on non-boosted spend
C15_Witness ==
    /\ pc = "computed"
    /\ AvgBal(client_row) = TierMid
    /\ cfg.rates.premium.base_mid # cfg.rates.premium.base_default
    /\ SpendIn(tx.rows, AllCategories) = 2000
    /\ ListSpend(tx.rows, cfg.categories.premium_boosted) = 0
    /\ Benefit(PremiumCard) = cfg.rates.premium.base_mid * 2000 * (Unit \div 100)

\* C16: travel benefit = travel_cashback * (clamped spend in the configured
\* travel categories), whatever the other transactions, the transfers and
\* the balance are.
C16_TravelFormula ==
    Computed =>
        Benefit(TravelCard) =
            cfg.rates.travel_cashback
            * SpendIn(tx.rows, Range(cfg.categories.travel)) * (Unit \div 100)

\* travel and taxi spend of 300,000 at 4 percent gives 12,000, with a
\* transfer and a balance present
C16_Witness ==
    /\ pc = "computed"
    /\ cfg.rates.travel_cashback = 4
    /\ SpendIn(tx.rows, { "Taksi" }) = 100000
    /\ SpendIn(tx.rows, { "Puteshestviya" }) = 200000
    /\ ~IsEmpty(tr)
    /\ AvgBal(client_row) > 0
    /\ Benefit(TravelCard) = 12000 * Unit

-----------------------------------------------------------------------------
(* The batch run over category-spend maps of up to five categories *)

CreditCategories ==
    << "Igraem doma", "Kafe i restorany", "Produkty pitaniya", "Smotrim doma",
       "Taksi" >>

\* one transaction per category with a non-zero amount in f
RowsOf(f) ==
    SelectSeq([ i \in DOMAIN CreditCategories |->
                  [ category |-> CreditCategories[i],
                    amount   |-> f[CreditCategories[i]] ] ],
              LAMBDA row : row.amount # 0)

CreditTables == { Table(RowsOf(f)) : f \in [ Range(CreditCategories) -> { 0, 10, 20 } ] }

InitCredit ==
    /\ client_row \in { c \in Clients : ~c.has_avg_balance }
    /\ tx \in CreditTables
    /\ tr = NoTable
    /\ cfg \in { CfgTypical, CfgRepeats }
    /\ ml_model_available = FALSE
    /\ ml_model = NoModel
    /\ method = "rules"
    /\ pc = "start"
    /\ benefits = << >>
    /\ facts = << >>
    /\ ranked = << >>
    /\ best_product = ""
    /\ result = NoResult
    /\ PushIdle
    /\ TasksIdle

SpecCredit == InitCredit /\ [][Next]_vars

\* C14: credit-card benefit = fav_rate * (spend of three highest-spend
\* categories (all of them when fewer than three) + spend of the online
\* categories outside those three), every category counted at most once.
C14_CreditCardNoDoubleCount ==
    Computed =>
        LET cats   == AllCategories
            k      == IF Cardinality(cats) < 3 THEN Cardinality(cats) ELSE 3
            online == Range(cfg.categories.online)
        IN  \E T \in SUBSET cats :
              /\ Cardinality(T) = k
              /\ \A a \in T, b \in cats \ T :
                     SpendIn(tx.rows, { a }) >= SpendIn(tx.rows, { b })
              /\ Benefit(CreditCard) =
                     cfg.rates.credit_card.fav_rate
                     * (SpendIn(tx.rows, T) + SpendIn(tx.rows, online \ T))
                     * (Unit \div 100)

\* one online category inside the top three, another with spend outside it,
\* under the online list that repeats an entry
C14_Witness ==
    /\ pc = "computed"
    /\ cfg = CfgRepeats
    /\ Cardinality(AllCategories) = 5
    /\ "Smotrim doma" \in Range(Fact(CreditCard, "top3"))
    /\ "Igraem doma" \notin Range(Fact(CreditCard, "top3"))
    /\ SpendIn(tx.rows, { "Igraem doma" }) > 0
    /\ Benefit(CreditCard) =
           cfg.rates.credit_card.fav_rate
           * (Fact(CreditCard, "top3_spend") + SpendIn(tx.rows, { "Igraem doma" }))
           * (Unit \div 100)

-----------------------------------------------------------------------------
(* The batch run over transfer tables of every relevant type *)

MaxTrWide == 3

TransferRows ==
    { [ type |-> "fx_buy",                 amount |-> 50 ],
      [ type |-> "fx_sell",                amount |-> -50 ],
      [ type |-> "fx_sell",                amount |-> 70 ],
      [ type |-> "deposit_fx_topup_out",   amount |-> 50 ],
      [ type |-> "deposit_fx_withdraw_in", amount |-> 30 ],
      [ type |-> "invest_in",              amount |-> 50 ],
      [ type |-> "invest_out",             amount |-> 20 ],
      [ type |-> "gold_buy_out",           amount |-> 50 ],
      [ type |-> "gold_sell_in",           amount |-> 60 ],
      [ type |-> "card_out",               amount |-> 50 ] }

InitTransfers ==
    /\ client_row \in { c \in Clients : c.avg_monthly_balance_KZT < TierMid }
    /\ tx = Table(<< [ category |-> "Taksi", amount |-> 10 ] >>)
    /\ tr \in { NoTable, NoColumns }
              \cup { Table(r) : r \in SeqsUpTo(TransferRows, MaxTrWide) }
    /\ cfg = CfgTypical
    /\ ml_model_available = FALSE
    /\ ml_model = NoModel
    /\ method = "rules"
    /\ pc = "start"
    /\ benefits = << >>
    /\ facts = << >>
    /\ ranked = << >>
    /\ best_product = ""
    /\ result = NoResult
    /\ PushIdle
    /\ TasksIdle

SpecTransfers == InitTransfers /\ [][Next]_vars

\* the transfers of the given types: their number and the sum of their amounts
TransfersOf(types) == { i \in DOMAIN tr.rows : tr.rows[i].type \in types }

RECURSIVE AmountSum(_, _)
AmountSum(rows, types) ==
    IF rows = << >> THEN 0
    ELSE AmountSum(SubSeq(rows, 1, Len(rows) - 1), types)
         + (IF rows[Len(rows)].type \in types THEN rows[Len(rows)].amount ELSE 0)

\* C17: currency-exchange benefit = fx_saving_rate * (sum of the amounts of the
\* fx_buy and fx_sell transfers); deposit_fx_topup_out and
\* deposit_fx_withdraw_in transfers are counted in the fx_ops fact only, and
\* transfers of other types change neither the benefit nor the fact.
C17_FxFormula ==
    Computed =>
        /\ Benefit(FxExchange) =
               cfg.rates.fx_saving_rate
               * AmountSum(tr.rows, { "fx_buy", "fx_sell" }) * (Unit \div 100)
        /\ Fact(FxExchange, "fx_volume_est") =
               AmountSum(tr.rows, { "fx_buy", "fx_sell" })
        /\ Fact(FxExchange, "fx_ops") =
               Cardinality(TransfersOf({ "fx_buy", "fx_sell" }))
               + Cardinality(TransfersOf({ "deposit_fx_topup_out",
                                           "deposit_fx_withdraw_in" }))

\* an exchange, a deposit top-up and a card transfer in one window
C17_Witness ==
    /\ pc = "computed"
    /\ TransfersOf({ "fx_buy", "fx_sell" }) # { }
    /\ TransfersOf({ "deposit_fx_topup_out", "deposit_fx_withdraw_in" }) # { }
    /\ TransfersOf({ "card_out" }) # { }
    /\ Benefit(FxExchange) > 0
    /\ Fact(FxExchange, "fx_ops") = 2

\* C18: each deposit benefit = its own rate * average balance / 12 * 3, whatever
\* the transactions and transfers are.
C18_DepositFormula ==
    Computed =>
        /\ Benefit(DepMulti) = QuarterInterest(cfg.rates.deposits.multi, AvgBal(client_row))
        /\ Benefit(DepSave)  = QuarterInterest(cfg.rates.deposits.save, AvgBal(client_row))
        /\ Benefit(DepAccum) = QuarterInterest(cfg.rates.deposits.accum, AvgBal(client_row))

\* a positive balance, three different rates, spend and a transfer present
C18_Witness ==
    /\ pc = "computed"
    /\ AvgBal(client_row) > 0
    /\ cfg.rates.deposits.multi # cfg.rates.deposits.save
    /\ cfg.rates.deposits.save # cfg.rates.deposits.accum
    /\ cfg.rates.deposits.multi # cfg.rates.deposits.accum
    /\ tx.rows # << >>
    /\ tr.rows # << >>
    /\ Benefit(DepMulti) > 0
    /\ Benefit(DepMulti) < Benefit(DepAccum)
    /\ Benefit(DepAccum) < Benefit(DepSave)

\* C19: investments benefit is 1000 iff some transfer is invest_in or
\* invest_out, gold benefit is 1000 iff some transfer is gold_buy_out or
\* gold_sell_in, else 0; the number and amounts of those transfers and the
\* other product's signal play no part.
C19_PresenceSignals ==
    Computed =>
        /\ Benefit(Investments) =
               (IF TransfersOf({ "invest_in", "invest_out" }) # { }
                THEN SignalBenefit * Unit ELSE 0)
        /\ Benefit(Gold) =
               (IF TransfersOf({ "gold_buy_out", "gold_sell_in" }) # { }
                THEN SignalBenefit * Unit ELSE 0)

\* two investment transfers of different amounts and no gold transfer
C19_Witness ==
    /\ pc = "computed"
    /\ Cardinality(TransfersOf({ "invest_in" })) = 1
    /\ Cardinality(TransfersOf({ "invest_out" })) = 1
    /\ TransfersOf({ "gold_buy_out", "gold_sell_in" }) = { }
    /\ Benefit(Investments) = SignalBenefit * Unit
    /\ Benefit(Gold) = 0

\* C20: a transaction with a negative amount adds 0 to the total spend and to
\* its category's spend (clamped per transaction, before aggregation): the
\* benefits are those of the table without its negative-amount rows.
C20_NegativeAmountsIgnored ==
    Computed =>
        LET kept == SelectSeq(tx.rows, LAMBDA row : row.amount >= 0)
        IN  /\ benefits = BenefitsDict(client_row, Table(kept), tr, cfg)
            /\ Fact(PremiumCard, "total_spend") = SpendIn(kept, AllCategories)
            /\ \A c \in AllCategories :
                   DictGet(CatSpend(tx.rows), c, -1) = SpendIn(kept, { c })

\* a positive and a larger negative amount in the same category
C20_Witness ==
    /\ pc = "computed"
    /\ \E i, j \in DOMAIN tx.rows :
          /\ tx.rows[i].category = tx.rows[j].category
          /\ tx.rows[i].amount > 0
          /\ tx.rows[j].amount < 0
          /\ tx.rows[i].category \in Range(cfg.categories.travel)
    /\ cfg.rates.travel_cashback > 0
    /\ Benefit(TravelCard) > 0
    /\ Fact(PremiumCard, "total_spend") > 0

-----------------------------------------------------------------------------
(* The batch run over transaction and transfer records in every order *)

\* four categories of equal spend, two of them online, and one larger spend
OrderRows ==
    { [ category |-> "Igraem doma",       amount |-> 10 ],
      [ category |-> "Kafe i restorany",  amount |-> 10 ],
      [ category |-> "Produkty pitaniya", amount |-> 10 ],
      [ category |-> "Smotrim doma",      amount |-> 10 ],
      [ category |-> "Taksi",             amount |-> 20 ] }

\* the sequences of up to four different rows, in every order
OrderTables ==
    { Table(r) : r \in { q \in SeqsUpTo(OrderRows, 4) :
                           \A i, j \in DOMAIN q : i # j => q[i] # q[j] } }

OrderTransfers ==
    { Table(<< >>),
      Table(<< [ type |-> "fx_buy", amount |-> 50 ],
               [ type |-> "fx_sell", amount |-> -50 ] >>),
      Table(<< [ type |-> "fx_sell", amount |-> 70 ],
               [ type |-> "invest_in", amount |-> 50 ] >>),
      Table(<< [ type |-> "gold_buy_out", amount |-> 50 ],
               [ type |-> "fx_buy", amount |-> 50 ] >>) }

InitOrder ==
    /\ client_row \in { c \in Clients : ~c.has_avg_balance }
    /\ tx \in OrderTables
    /\ tr \in OrderTransfers
    /\ cfg = CfgTypical
    /\ ml_model_available = FALSE
    /\ ml_model = NoModel
    /\ method = "rules"
    /\ pc = "start"
    /\ benefits = << >>
    /\ facts = << >>
    /\ ranked = << >>
    /\ best_product = ""
    /\ result = NoResult
    /\ PushIdle
    /\ TasksIdle

SpecOrder == InitOrder /\ [][Next]_vars

\* the reorderings of a sequence
Reorderings(s) ==
    { [ i \in DOMAIN s |-> s[p[i]] ] : p \in Permutations(DOMAIN s) }

\* C21: the BenefitMap (and the ranked list) is the same for every reordering
\* of the transaction records and of the transfer records, ties at the
\* credit-card top-3 boundary included.
C21_OrderIrrelevant ==
    Computed =>
        \A txRows \in Reorderings(tx.rows), trRows \in Reorderings(tr.rows) :
            LET b == BenefitsDict(client_row, Table(txRows), Table(trRows), cfg)
            IN  /\ b = benefits
                /\ Ranked => rank_products(b) = ranked

\* four categories tie below the largest, an online one among them, and the
\* records are not in category order
C21_Witness ==
    /\ pc = "ranked"
    /\ Len(tx.rows) = 4
    /\ tx.rows[1].category = "Smotrim doma"
    /\ tx.rows[2].category = "Taksi"
    /\ tx.rows[3].category = "Produkty pitaniya"
    /\ tx.rows[4].category = "Kafe i restorany"
    /\ Len(tr.rows) = 2
    /\ Fact(CreditCard, "top3") = << "Taksi", "Kafe i restorany", "Produkty pitaniya" >>
    /\ Benefit(CreditCard) = cfg.rates.credit_card.fav_rate * 50 * (Unit \div 100)

-----------------------------------------------------------------------------
(* Further properties of the calculator and the ranker *)

\* the place of a category in ascending name order
NameRank(c) == CHOOSE i \in DOMAIN CategoryOrder : CategoryOrder[i] = c

\* category a is taken before category b: higher spend, or equal spend and
\* the earlier name
TakenBefore(a, b) ==
    \/ SpendIn(tx.rows, { a }) > SpendIn(tx.rows, { b })
    \/ /\ SpendIn(tx.rows, { a }) = SpendIn(tx.rows, { b })
       /\ NameRank(a) < NameRank(b)

\* C26: the credit-card top 3 are taken by spend descending, equal spends in
\* ascending category-name order, so the top 3 and the credit-card benefit are
\* a function of the category totals, also with a tie for third place.
C26_Top3Deterministic ==
    Computed =>
        LET top    == Fact(CreditCard, "top3")
            cats   == AllCategories
            online == Range(cfg.categories.online)
        IN  /\ Len(top) = (IF Cardinality(cats) < 3 THEN Cardinality(cats) ELSE 3)
            /\ Range(top) \subseteq cats
            /\ \A i, j \in DOMAIN top : i < j => TakenBefore(top[i], top[j])
            /\ \A c \in cats \ Range(top) : \A i \in DOMAIN top : TakenBefore(top[i], c)
            /\ Benefit(CreditCard) =
                   cfg.rates.credit_card.fav_rate
                   * (SpendIn(tx.rows, Range(top))
                      + SpendIn(tx.rows, online \ Range(top)))
                   * (Unit \div 100)

\* an online and a non-online category tie for third place
C26_Witness ==
    /\ pc = "computed"
    /\ Fact(CreditCard, "top3") = << "Kafe i restorany", "Taksi", "Produkty pitaniya" >>
    /\ SpendIn(tx.rows, { "Produkty pitaniya" }) = SpendIn(tx.rows, { "Smotrim doma" })
    /\ SpendIn(tx.rows, { "Igraem doma" }) = 0
    /\ SpendIn(tx.rows, { "Smotrim doma" }) > 0
    /\ "Smotrim doma" \in Range(cfg.categories.online)
    /\ "Produkty pitaniya" \notin Range(cfg.categories.online)

\* C24: ranking is idempotent: the ranked list, read as a map in its output
\* order and ranked again, is the same sequence.
C24_RankIdempotent ==
    Ranked => rank_products(ranked) = ranked

\* a ranking that moved entries and holds equal benefits
C24_Witness ==
    /\ pc = "ranked"
    /\ ranked # benefits
    /\ \E i, j \in DOMAIN ranked : i < j /\ ranked[i][2] = ranked[j][2]
    /\ \E i, j \in DOMAIN ranked : ranked[i][2] > ranked[j][2] /\ ranked[j][2] > 0

\* C27: with a non-negative travel cashback rate the cash loan is never ranked
\* first: its benefit is 0, the travel card stands before it with a benefit
\* >= 0; the rule-based pick is never the cash loan and the top benefit is
\* never negative.
C27_CashLoanNeverFirst ==
    (Ranked /\ cfg.rates.travel_cashback >= 0) =>
        /\ Benefit(CashLoan) = 0
        /\ Benefit(TravelCard) >= 0
        /\ ranked[1][1] # CashLoan
        /\ ranked[1][2] >= 0
        /\ pc = "picked" => best_product # CashLoan

\* no product has a positive benefit and one has a negative one
C27_Witness ==
    /\ pc = "picked"
    /\ \A i \in DOMAIN benefits : benefits[i][2] <= 0
    /\ Benefit(FxExchange) < 0
    /\ ranked[1] = << TravelCard, 0 >>
    /\ best_product = TravelCard

-----------------------------------------------------------------------------
(* Further properties of the combiner, under SpecCombiner *)

\* C28: hybrid mode, classifier confidence c in [0, 1], rule ranking present:
\* the returned confidence is in [0, 1]; within [c, 1] when the top products
\* agree (the rule top value is never negative), 0.8 * c <= 0.8 when they
\* differ.
C28_HybridConfidenceInUnitInterval ==
    ( /\ Called
      /\ method = "hybrid"
      /\ MlPredictions # << >>
      /\ RulesAvailable
      /\ MlPredictions[1][2] >= 0
      /\ MlPredictions[1][2] <= Unit )
    => /\ ~result.raised
       /\ RulePredictions.ranked[1][2] >= 0
       /\ result.confidence >= 0
       /\ result.confidence <= Unit
       /\ MlPredictions[1][1] = RulePredictions.ranked[1][1]
              => result.confidence >= MlPredictions[1][2]
       /\ MlPredictions[1][1] # RulePredictions.ranked[1][1]
              => /\ result.confidence * 10 = MlPredictions[1][2] * 8
                 /\ result.confidence * 10 <= Unit * 8

\* agreement on a large rule value: 0.7 raised to the cap 1.0
C28_Witness ==
    /\ pc = "done"
    /\ method = "hybrid"
    /\ MlPredictions # << >>
    /\ RulesAvailable
    /\ MlPredictions[1][2] = (70 * Unit) \div 100
    /\ MlPredictions[1][1] = RulePredictions.ranked[1][1]
    /\ RulePredictions.ranked[1][2] > 100 * Unit
    /\ result.confidence = Unit

-----------------------------------------------------------------------------
(* Frame of the calculator and the ranker, under Spec *)

\* C22: compute_expected_benefits and rank_products leave their inputs as
\* they were: the rate configuration, the client profile, the caller's
\* transaction table (no amount_kzt column, no amount altered), the transfer
\* table, and the BenefitMap handed to rank_products.
C22_InputsUnchanged ==
    [][ /\ cfg' = cfg
        /\ client_row' = client_row
        /\ tx' = tx
        /\ tr' = tr
        /\ pc = "computed" => benefits' = benefits ]_vars

\* both calls made on a table with a negative amount, the ranking reordered
C22_Witness ==
    /\ pc = "ranked"
    /\ \E i \in DOMAIN tx.rows : tx.rows[i].amount < 0
    /\ \E i \in DOMAIN tx.rows : tx.rows[i].amount > 0
    /\ tr.rows # << >>
    /\ ranked # benefits
    /\ benefits = BenefitsDict(client_row, tx, tr, cfg)

-----------------------------------------------------------------------------
(* validator.py over push texts *)

\* the accepted length range and the length autocorrect cuts to
MinLen == 160
MaxLen == 240
CutLen == 220

\* text.count("!")
BangCount(text) == SeqSum(text.bangs)

IsEmptyText(text) == text.len = 0

\* validate_push: the issues found, by kind
validate_push(text) ==
    LET issues ==
            (IF text.len < MinLen \/ text.len > MaxLen THEN { "length" } ELSE { })
            \cup (IF text.caps # "none" THEN { "caps" } ELSE { })
            \cup (IF ~text.vy THEN { "vy" } ELSE { })
            \cup (IF BangCount(text) > 1 THEN { "bangs" } ELSE { })
            \cup (IF text.cta = "none" THEN { "cta" } ELSE { })
    IN  [ ok |-> issues = { }, issues |-> issues ]

\* autocorrect: every run of '!' becomes one '!', a whole word in capitals is
\* lowered and capitalised (a capital run inside a longer word is not), a text
\* longer than 220 is cut to 220 and loses the " ,.;" run that ends there and
\* whatever stood behind the cut.  The texts explored carry no outer
\* whitespace (run_ollama strips its output), so strip() changes nothing.
autocorrect(text) ==
    LET len1 == text.len - (BangCount(text) - Len(text.bangs))
        cut  == len1 > CutLen
        len2 == IF cut THEN CutLen - text.tail_punct ELSE len1
    IN  [ len        |-> len2,
          caps       |-> IF text.caps = "word" THEN "none" ELSE text.caps,
          vy         |-> text.vy /\ len2 > 0,
          bangs      |-> IF len2 > 0 THEN [ i \in DOMAIN text.bangs |-> 1 ] ELSE << >>,
          cta        |-> IF cut /\ text.cta = "tail" THEN "none" ELSE text.cta,
          tail_punct |-> IF cut THEN 0 ELSE text.tail_punct ]

-----------------------------------------------------------------------------
(* ollama_client.generate_with_guardrails *)

\* a retry after any non-empty first result
NeedsRetryAlways(text) == ~IsEmptyText(text)

\* lines 31-36: a non-empty first result that fails validation is retried
NeedsRetry(text) == ~IsEmptyText(text) /\ ~validate_push(text).ok

\* lines 37-42: what is returned once the second result is in
AfterSecond(text2) ==
    IF ~IsEmptyText(text2)
    THEN IF validate_push(text2).ok THEN text2 ELSE autocorrect(text2)
    ELSE EmptyText

\* what the external generator may hand back: "" (no output, or a timeout) and
\* texts that pass, that autocorrect repairs, and that it cannot repair
GenTexts ==
    { EmptyText,
      [ len |-> 200, caps |-> "none", vy |-> TRUE, bangs |-> << 1 >>,
        cta |-> "head", tail_punct |-> 0 ],
      [ len |-> 100, caps |-> "none", vy |-> TRUE, bangs |-> << >>,
        cta |-> "none", tail_punct |-> 0 ],
      [ len |-> 250, caps |-> "word", vy |-> TRUE, bangs |-> << 3 >>,
        cta |-> "head", tail_punct |-> 2 ],
      [ len |-> 250, caps |-> "none", vy |-> TRUE, bangs |-> << >>,
        cta |-> "tail", tail_punct |-> 0 ],
      [ len |-> 200, caps |-> "run", vy |-> TRUE, bangs |-> << 1, 1 >>,
        cta |-> "head", tail_punct |-> 0 ],
      [ len |-> 230, caps |-> "none", vy |-> FALSE, bangs |-> << >>,
        cta |-> "none", tail_punct |-> CutLen ] }

\* the generator is asked for a text: `if ollama_model:` in
\* generate_push_notification, `args.model != "none"` in generate.main
InterfaceUsesGenerator(m) == m # ""
MainUsesGenerator(m) == m # "none"

\* the first run_ollama of generate_with_guardrails (lines 30-35)
RunOllamaFirst ==
    /\ pc \in { "prepared", "picked" }
    /\ calls = << >>
    /\ IF pc = "prepared" THEN InterfaceUsesGenerator(ollama_model)
                          ELSE MainUsesGenerator(ollama_model)
    /\ \E text \in GenTexts :
          /\ calls' = << [ critique |-> { }, output |-> text ] >>
          /\ IF NeedsRetry(text)
             THEN /\ pc' = IF pc = "prepared" THEN "retry" ELSE "retry_main"
                  /\ draft' = draft
             ELSE /\ pc' = IF pc = "prepared" THEN "generated" ELSE "generated_main"
                  /\ draft' = text
    /\ UNCHANGED << client_row, tx, tr, cfg, ml_model_available, ml_model, method,
                    benefits, facts, ranked, best_product, result,
                    ollama_model, push_out, taskVars >>

\* the second run_ollama, with the critique (lines 35-42)
RunOllamaSecond ==
    /\ pc \in { "retry", "retry_main" }
    /\ \E text2 \in GenTexts :
          /\ calls' = Append(calls,
                             [ critique |-> validate_push(calls[1].output).issues,
                               output   |-> text2 ])
          /\ draft' = AfterSecond(text2)
    /\ pc' = IF pc = "retry" THEN "generated" ELSE "generated_main"
    /\ UNCHANGED << client_row, tx, tr, cfg, ml_model_available, ml_model, method,
                    benefits, facts, ranked, best_product, result,
                    ollama_model, push_out, taskVars >>

-----------------------------------------------------------------------------
(* The template texts *)

\* len() of the category names as they stand in the data
CategoryNameLen(c) ==
    CASE c = "Taksi"             -> 5
      [] c = "Kafe i restorany"  -> 16
      [] c = "Produkty pitaniya" -> 16
      [] c = "Smotrim doma"      -> 12
      [] c = "Igraem doma"       -> 11
      [] OTHER                   -> 11

\* behavior["top_categories"]: the first three categories by the sum of the
\* raw amounts, descending (_build_behavior_summary / build_behavior)
BehaviorTop(txTable) ==
    IF txTable.kind = "None" \/ IsEmpty(txTable) THEN << >>
    ELSE LET keys  == CatSpend(txTable.rows)
             items == SortedDesc([ i \in DOMAIN keys |->
                          << keys[i][1], RawGroupSum(txTable.rows, keys[i][1]) >> ])
         IN  [ i \in 1..Min(3, Len(items)) |-> items[i][1] ]

\* len(', '.join(top[:3]) or fallback)
CatsLen(top, fallbackLen) ==
    IF top = << >> THEN fallbackLen
    ELSE SeqSum([ i \in DOMAIN top |-> CategoryNameLen(top[i]) ]) + 2 * (Len(top) - 1)

RECURSIVE Digits(_)
Digits(n) == IF n < 10 THEN 1 ELSE 1 + Digits(n \div 10)

\* len(benefit_txt): format_kzt(benefit) for a positive benefit, "" otherwise;
\* format_kzt prints the rounded amount in groups of three and " T"
BenefitTxtLen(benefit) ==
    IF benefit > 0
    THEN LET d == Digits((benefit + Unit \div 2) \div Unit)
         IN  d + (d - 1) \div 3 + 2
    ELSE 0

\* a template of the given length around the client's name: capitals only
\* where the name is written in them, no '!', its call to action at the end
TemplateText(len, vy, name) ==
    [ len |-> len + name.len, caps |-> IF name.caps THEN "word" ELSE "none",
      vy |-> vy, bangs |-> << >>,
      cta |-> IF len + name.len > CutLen THEN "tail" ELSE "head", tail_punct |-> 0 ]

IsDeposit(product) == product \in { DepMulti, DepSave, DepAccum }

\* ModelInterface._generate_template_push
generate_template_push(product, name, month_len, benefit, top) ==
    CASE product = TravelCard  ->
             TemplateText(167 + month_len + BenefitTxtLen(benefit), TRUE, name)
      [] product = PremiumCard -> TemplateText(173, TRUE, name)
      [] product = CreditCard  -> TemplateText(127 + CatsLen(top, 20), TRUE, name)
      [] product = FxExchange  -> TemplateText(164, TRUE, name)
      [] product = Investments -> TemplateText(187, TRUE, name)
      [] IsDeposit(product)    -> TemplateText(192, TRUE, name)
      [] OTHER                 -> TemplateText(185, TRUE, name)

\* the template chain of generate.main (lines 96-111)
MainTemplate(product, name, month_len, benefit, top) ==
    CASE product = TravelCard  ->
             TemplateText(95 + month_len + BenefitTxtLen(benefit), TRUE, name)
      [] product = PremiumCard -> TemplateText(134, TRUE, name)
      [] product = CreditCard  -> TemplateText(97 + CatsLen(top, 18), TRUE, name)
      [] product = FxExchange  -> TemplateText(120, TRUE, name)
      [] IsDeposit(product)    -> TemplateText(118, TRUE, name)
      [] product = Investments -> TemplateText(85, FALSE, name)
      [] OTHER                 -> TemplateText(84, FALSE, name)

\* the client names explored (their len(), and whether written in capitals)
\* and the len() of the month names
Names ==
    { [ len |-> 3, caps |-> FALSE ], [ len |-> 12, caps |-> FALSE ],
      [ len |-> 7, caps |-> TRUE ] }

MonthLens == { 3, 8 }

-----------------------------------------------------------------------------
(* ModelInterface.generate_push_notification, step by step *)

\* no text at all handed back
FinalTextEmptyKept(text, template) == text

\* lines 292-295: the template stands in when the generator gave nothing
TextOrTemplate(text, template) == IF IsEmptyText(text) THEN template ELSE text

\* lines 298-301: the validation reported with the final text
ValidationOf(final, first) == IF first.ok THEN first ELSE validate_push(final)

\* lines 247-250: pick the product, compute the benefits
PushPrepare ==
    /\ pc = "start"
    /\ LET picked == get_best_product(client_row, tx, tr, cfg,
                                      ml_model_available, ml_model, method)
           scored == compute_expected_benefits(client_row, tx, tr, cfg)
       IN  /\ result' = picked
           /\ IF picked.raised \/ scored.raised
              THEN /\ pc' = "raised"
                   /\ UNCHANGED << benefits, facts, best_product >>
              ELSE /\ pc' = "prepared"
                   /\ benefits' = scored.benefits
                   /\ facts' = scored.facts
                   /\ best_product' = picked.product
    /\ UNCHANGED << client_row, tx, tr, cfg, ml_model_available, ml_model, method,
                    ranked, pushVars, taskVars >>

\* lines 292-312: template fallback, validate and correct, return
PushFinish ==
    /\ \/ pc = "prepared" /\ ~InterfaceUsesGenerator(ollama_model)
       \/ pc = "generated"
    /\ \E name \in Names, month_len \in MonthLens :
          LET expected_benefit == DictGet(benefits, best_product, 0)
              push_text  == TextOrTemplate(draft,
                                generate_template_push(best_product, name, month_len,
                                                       expected_benefit, BehaviorTop(tx)))
              validation == validate_push(push_text)
              final      == IF validation.ok THEN push_text ELSE autocorrect(push_text)
          IN  /\ draft' = push_text
              /\ push_out' = [ returned          |-> TRUE,
                               product           |-> best_product,
                               push_notification |-> final,
                               validation        |-> ValidationOf(final, validation),
                               expected_benefit  |-> expected_benefit,
                               facts             |-> DictGet(facts, best_product, << >>) ]
    /\ pc' = "returned"
    /\ UNCHANGED << client_row, tx, tr, cfg, ml_model_available, ml_model, method,
                    benefits, facts, ranked, best_product, result,
                    ollama_model, calls, taskVars >>

PushClients == { c \in Clients : c.avg_monthly_balance_KZT \in { 0, TierMid } }

PushTables ==
    { NoColumns, Table(<< >>),
      Table(<< [ category |-> "Kafe i restorany", amount |-> 2000 ] >>),
      Table(<< [ category |-> "Taksi", amount |-> 100000 ],
               [ category |-> "Kafe i restorany", amount |-> 2000 ] >>) }

PushTransfers == { NoTable, Table(<< [ type |-> "fx_buy", amount |-> 500000 ] >>) }

\* no classifier, one that answers inside the catalog, one that answers a
\* label outside it
PushModels ==
    { m \in MLModels : /\ ~m.raises
                       /\ m.classes # << >>
                       /\ \/ m.api = "predict"
                          \/ m.api = "predict_proba" /\ m.score = Unit /\ m.top = Investments }

InitPush ==
    /\ client_row \in PushClients
    /\ tx \in PushTables
    /\ tr \in PushTransfers
    /\ cfg = CfgTypical
    /\ \/ ml_model_available = FALSE /\ ml_model = NoModel
       \/ ml_model_available = TRUE /\ ml_model \in PushModels
    /\ method \in { "hybrid", "rules" }
    /\ pc = "start"
    /\ benefits = << >>
    /\ facts = << >>
    /\ ranked = << >>
    /\ best_product = ""
    /\ result = NoResult
    /\ ollama_model \in { "", "mistral:7b" }
    /\ calls = << >>
    /\ draft = EmptyText
    /\ push_out = NoOutput
    /\ TasksIdle

NextPush == PushPrepare \/ RunOllamaFirst \/ RunOllamaSecond \/ PushFinish

SpecPush == InitPush /\ [][NextPush]_vars

-----------------------------------------------------------------------------
(* generate.main with its push step *)

\* lines 86-118: generator or template, validate, autocorrect, write the row
MainEmitPush ==
    /\ \/ pc = "picked" /\ ~MainUsesGenerator(ollama_model)
       \/ pc = "generated_main"
    /\ \E name \in Names, month_len \in MonthLens :
          LET expected_benefit == DictGet(benefits, best_product, 0)
              push  == TextOrTemplate(draft,
                           MainTemplate(best_product, name, month_len,
                                        expected_benefit, BehaviorTop(tx)))
              chk   == validate_push(push)
              final == IF chk.ok THEN push ELSE autocorrect(push)
          IN  /\ draft' = push
              /\ push_out' = [ returned          |-> TRUE,
                               product           |-> best_product,
                               push_notification |-> final,
                               validation        |-> chk,
                               expected_benefit  |-> expected_benefit,
                               facts             |-> DictGet(facts, best_product, << >>) ]
    /\ pc' = "written"
    /\ UNCHANGED << client_row, tx, tr, cfg, ml_model_available, ml_model, method,
                    benefits, facts, ranked, best_product, result,
                    ollama_model, calls, taskVars >>

InitMain ==
    /\ client_row \in PushClients
    /\ tx \in PushTables \ { NoColumns }
    /\ tr \in PushTransfers \cup { Table(<< [ type |-> "invest_in", amount |-> 50 ] >>) }
    /\ cfg = CfgTypical
    /\ ml_model_available = FALSE
    /\ ml_model = NoModel
    /\ method = "rules"
    /\ pc = "start"
    /\ benefits = << >>
    /\ facts = << >>
    /\ ranked = << >>
    /\ best_product = ""
    /\ result = NoResult
    /\ ollama_model \in { "none", "mistral:7b" }
    /\ calls = << >>
    /\ draft = EmptyText
    /\ push_out = NoOutput
    /\ TasksIdle

NextMain ==
    \/ CallComputeExpectedBenefits
    \/ CallRankProducts
    \/ PickBestProduct
    \/ RunOllamaFirst
    \/ RunOllamaSecond
    \/ MainEmitPush

SpecMain == InitMain /\ [][NextMain]_vars

\* C25: the push text finally emitted for a client passes validate_push
\* (length 160..240, no run of 4+ capitals, a form of address, at most one
\* '!', a call to action), whether it came from the generator, the template
\* or autocorrect.
C25_EmittedPushIsValid ==
    push_out.returned => validate_push(push_out.push_notification).ok

-----------------------------------------------------------------------------
(* Properties of the push step, under SpecPush *)

\* generate_with_guardrails has returned and its value is still in draft
GuardrailsReturned == pc = "generated"

\* C29: generate_with_guardrails calls the generator at most twice; the second
\* call carries the critique and follows only a non-empty first result that
\* fails validation; an empty first result gives "" and a valid one is
\* returned, both without a retry; a non-empty second result is returned as
\* is when valid and autocorrected otherwise.
C29_GuardrailsRetryOnce ==
    /\ Len(calls) <= 2
    /\ pc = "retry" => Len(calls) = 1
    /\ Len(calls) = 2 =>
           LET first == validate_push(calls[1].output)
           IN  /\ calls[1].output.len > 0
               /\ ~first.ok
               /\ calls[2].critique = first.issues
               /\ first.issues # { }
    /\ (GuardrailsReturned /\ Len(calls) = 1) =>
           /\ calls[1].output.len = 0 \/ validate_push(calls[1].output).ok
           /\ draft = calls[1].output
    /\ (GuardrailsReturned /\ Len(calls) = 2 /\ calls[2].output.len > 0) =>
           draft = (IF validate_push(calls[2].output).ok
                    THEN calls[2].output
                    ELSE autocorrect(calls[2].output))

\* a failing first text, then a failing second one handed back corrected
C29_Witness ==
    /\ pc = "generated"
    /\ Len(calls) = 2
    /\ calls[1].output.cta = "none"
    /\ calls[2].critique = { "length", "cta" }
    /\ calls[2].output.caps = "word"
    /\ draft # calls[2].output
    /\ draft.len = CutLen - 2
    /\ validate_push(draft).ok

\* what generate_with_guardrails handed back, read off the calls made
GeneratorGave ==
    IF calls = << >> THEN EmptyText
    ELSE IF Len(calls) = 1 THEN calls[1].output
    ELSE IF calls[2].output.len = 0 THEN EmptyText
    ELSE IF validate_push(calls[2].output).ok THEN calls[2].output
    ELSE autocorrect(calls[2].output)

TemplatesOf(product) ==
    { generate_template_push(product, n, m, DictGet(benefits, product, 0), BehaviorTop(tx)) :
          n \in Names, m \in MonthLens }

\* C30: every result of generate_push_notification has a non-empty text (the
\* template whenever no generator is configured or it gave ""), autocorrect
\* applied exactly when the first validation fails, the validation of the
\* final text, and the BenefitMap / FactMap entries of the returned product
\* (0.0 and {} for a product outside the maps).
C30_PushResultWellFormed ==
    push_out.returned =>
        /\ push_out.push_notification.len > 0
        /\ GeneratorGave.len = 0 => draft \in TemplatesOf(push_out.product)
        /\ GeneratorGave.len > 0 => draft = GeneratorGave
        /\ push_out.push_notification =
               (IF validate_push(draft).ok THEN draft ELSE autocorrect(draft))
        /\ push_out.validation = validate_push(push_out.push_notification)
        /\ push_out.product = result.product
        /\ IF push_out.product \in Range(Catalog)
           THEN /\ push_out.expected_benefit = Benefit(push_out.product)
                /\ push_out.facts = DictGet(facts, push_out.product, << >>)
           ELSE /\ push_out.expected_benefit = 0
                /\ push_out.facts = << >>

\* the generator's second text was cut down to "", the template stood in for
\* a product outside the maps
C30_Witness ==
    /\ pc = "returned"
    /\ Len(calls) = 2
    /\ calls[2].output.len > 0
    /\ GeneratorGave.len = 0
    /\ push_out.product \notin Range(Catalog)
    /\ push_out.push_notification.len > 0
    /\ ~validate_push(draft).ok
    /\ push_out.push_notification # draft
    /\ push_out.validation.ok

-----------------------------------------------------------------------------
(* Computations for two clients side by side over one configuration and one *)
(* ModelInterface.  Each call of compute_expected_benefits has its own frame *)
(* of locals; cfg, ml_model and ml_model_available are shared and only read. *)

TaskIds == { 1, 2 }

NoFrame == [ live |-> FALSE, total_spend |-> 0, cat_spend |-> << >> ]

\* one module-level scratch area used by every call
SharedFrame(i) == 1

\* the frame of a call: total_spend and cat_spend are locals of the call
FrameOf(i) == i

TaskInputs ==
    [ client_row : PushClients,
      tx : { NoColumns,
             Table(<< [ category |-> "Taksi", amount |-> 10 ] >>),
             Table(<< [ category |-> "Kafe i restorany", amount |-> 2000 ],
                      [ category |-> "Smotrim doma", amount |-> 9 ] >>) },
      tr : { NoTable, Table(<< [ type |-> "invest_in", amount |-> 50 ] >>) } ]

NewTask(input) ==
    [ pc |-> "start", client_row |-> input.client_row, tx |-> input.tx,
      tr |-> input.tr, benefits |-> << >>, ranked |-> << >>, result |-> NoResult ]

InitTasks ==
    /\ client_row \in { c \in Clients : ~c.has_avg_balance }
    /\ tx = NoTable
    /\ tr = NoTable
    /\ cfg \in { CfgTypical, CfgLowCap }
    /\ \/ ml_model_available = FALSE /\ ml_model = NoModel
       \/ /\ ml_model_available = TRUE
          /\ ml_model \in { m \in PushModels : m.api = "predict_proba" }
    /\ method = "hybrid"
    /\ pc = "start"
    /\ benefits = << >>
    /\ facts = << >>
    /\ ranked = << >>
    /\ best_product = ""
    /\ result = NoResult
    /\ PushIdle
    /\ tasks \in [ TaskIds -> { NewTask(input) : input \in TaskInputs } ]
    /\ frames = [ s \in TaskIds |-> NoFrame ]

\* scoring.py:16-23: copy, clamp, aggregate into the locals of the call
TaskAggregate(i) ==
    /\ tasks[i].pc = "start"
    /\ IF ComputeRaises(tasks[i].tx)
       THEN /\ tasks' = [ tasks EXCEPT ![i].pc = "raised" ]
            /\ frames' = frames
       ELSE /\ tasks' = [ tasks EXCEPT ![i].pc = "aggregated" ]
            /\ frames' = [ frames EXCEPT ![FrameOf(i)] =
                             [ live        |-> TRUE,
                               total_spend |-> TotalSpend(tasks[i].tx.rows),
                               cat_spend   |-> CatSpend(tasks[i].tx.rows) ] ]
    /\ UNCHANGED << client_row, tx, tr, cfg, ml_model_available, ml_model, method,
                    pc, benefits, facts, ranked, best_product, result, pushVars >>

\* scoring.py:25-89: the ten benefits from the locals and the shared cfg
TaskScore(i) ==
    /\ tasks[i].pc = "aggregated"
    /\ LET fr == frames[FrameOf(i)]
       IN  tasks' = [ tasks EXCEPT
                        ![i].pc = "computed",
                        ![i].benefits = BenefitsFrom(tasks[i].client_row, fr.total_spend,
                                                     fr.cat_spend, tasks[i].tr, cfg) ]
    /\ UNCHANGED << client_row, tx, tr, cfg, ml_model_available, ml_model, method,
                    pc, benefits, facts, ranked, best_product, result, pushVars,
                    frames >>

\* scoring.py:91-92
TaskRank(i) ==
    /\ tasks[i].pc = "computed"
    /\ tasks' = [ tasks EXCEPT ![i].pc = "ranked",
                               ![i].ranked = rank_products(tasks[i].benefits) ]
    /\ UNCHANGED << client_row, tx, tr, cfg, ml_model_available, ml_model, method,
                    pc, benefits, facts, ranked, best_product, result, pushVars,
                    frames >>

\* model_interface.py:179-223 on the shared ModelInterface
TaskCombine(i) ==
    /\ tasks[i].pc = "ranked"
    /\ tasks' = [ tasks EXCEPT
                    ![i].pc = "done",
                    ![i].result = get_best_product(tasks[i].client_row, tasks[i].tx,
                                                   tasks[i].tr, cfg, ml_model_available,
                                                   ml_model, method) ]
    /\ UNCHANGED << client_row, tx, tr, cfg, ml_model_available, ml_model, method,
                    pc, benefits, facts, ranked, best_product, result, pushVars,
                    frames >>

NextTasks ==
    \E i \in TaskIds : TaskAggregate(i) \/ TaskScore(i) \/ TaskRank(i) \/ TaskCombine(i)

SpecTasks == InitTasks /\ [][NextTasks]_vars

\* what client i gets when processed alone
AloneBenefits(i) == BenefitsDict(tasks[i].client_row, tasks[i].tx, tasks[i].tr, cfg)

AloneResult(i) ==
    get_best_product(tasks[i].client_row, tasks[i].tx, tasks[i].tr, cfg,
                     ml_model_available, ml_model, method)

\* C23: with computations for different clients interleaved over one shared
\* rate configuration and one shared ModelInterface, each client's BenefitMap,
\* ranked list and combined recommendation are those it gets when processed
\* alone.
C23_ConcurrentClientsIndependent ==
    \A i \in TaskIds :
        /\ tasks[i].pc \in { "computed", "ranked", "done" }
               => tasks[i].benefits = AloneBenefits(i)
        /\ tasks[i].pc \in { "ranked", "done" }
               => tasks[i].ranked = rank_products(AloneBenefits(i))
        /\ tasks[i].pc = "done" => tasks[i].result = AloneResult(i)

\* two different clients both finished, with different results
C23_Witness ==
    /\ \A i \in TaskIds : tasks[i].pc = "done"
    /\ tasks[1].tx # tasks[2].tx
    /\ tasks[1].benefits # tasks[2].benefits
    /\ tasks[1].ranked[1][1] # tasks[2].ranked[1][1]
    /\ tasks[1].result.product = tasks[2].result.product
    /\ tasks[1].result.confidence > tasks[2].result.confidence

=============================================================================
